---- MODULE Spec2Model ----
(***************************************************************************)
(* Model of the daily puzzle rotation and solver statistics of cinemist    *)
(* (functions/index.js): the Firestore documents the Cloud Functions read  *)
(* and write, one action per Cloud Function, and the submitSolution        *)
(* transaction step by step; the same functions with a store call failing; *)
(* the presence functions on the collection activeUsers; and the page load *)
(* of the game client (HomeView.vue).                                      *)
(*                                                                         *)
(* Time is counted in ticks of 30 minutes since 00:00 UTC of day 0, the    *)
(* coarsest unit in which the 5.5 hour IST offset is a whole number.       *)
(***************************************************************************)
EXTENDS Integers, Sequences, FiniteSets, TLC

\* ---------------------------------------------------------------- bounds
MaxItems == 2
MaxHistory == 2
MaxDisc == 1
MaxCalls == 2
MaxInstant == 100
MaxClock == 4
MaxPings == 2
MaxTasks == 2

\* The participants: the IP hashes submitSolution is called from.
Participants == {"ipA", "ipB"}

\* ------------------------------------------------------ program constants
TicksPerHour == 2
IstOffset == 11
DayTicks == 48
DailyCronTick == 37
CleanupCutoff == 2
CleanupEvery == 3

Discs == 0..MaxDisc
Calls == 1..MaxCalls

\* The instants the clock visits: 00:30 UTC of day 0 (1, an hourly cron),
\* the daily cron of day 0 (26), the first tick of IST day 1 (37, an hourly
\* cron), 00:30 UTC of day 1 (49, an hourly cron) and the daily cron of
\* day 1 (74).
Instants == {1, 26, 37, 49, 74}
FirstInstant == CHOOSE t \in Instants : \A u \in Instants : t <= u

\* A document that does not exist (doc.exists is false).
NoDoc == [exists |-> FALSE]
NoResponse == "none"

\* The ids of the documents of activeUsers: the IP hashes pingPresence is
\* called from, and the cinemist_session ids of the HomeView clients.
Sessions == {"user_1"}
PresenceIds == Participants \cup Sessions
NoPing == 0 - 1

\* The rotatePuzzleLogic invocations that may run at once, and what one
\* holds in its local constants: displayDoc, statsDoc, nextPuzzleDoc. gate
\* records the queue as it was when the caller's gate let the invocation in.
Tasks == 1..MaxTasks
NoEntry == [id |-> 0, createdAt |-> 0]
IdleTask ==
  [pc |-> "idle", displayDoc |-> NoDoc, statsDoc |-> NoDoc,
   nextPuzzleDoc |-> NoEntry, gate |-> {}]

\* The browser sessions that play and submit, and what a
\* submitSolutionStats call holds: the clue index, the puzzle id of its
\* key, and the clueCounts it read.
Players == {"user_1", "user_2"}
IdleSubmit == [pc |-> "idle", clueIndex |-> 0, puzzleId |-> 0, saw |-> NoDoc]

\* What a cleanupActiveUsers run holds between its query and its batch
\* commit: the ids of the documents of its snapshot.
IdleSweep == [pc |-> "idle", docs |-> {}]

VARIABLES
  now,              \* new Date() / serverTimestamp()
  displayPuzzle,    \* document displayPuzzle/current, or NoDoc
  approvedPuzzles,  \* collection approvedPuzzles: set of [id, createdAt]
  historyPuzzles,   \* collection historyPuzzles, in order of creation
  puzzleStats,      \* document puzzleStats/current: clueCounts, or NoDoc
  solvers,          \* subcollection puzzleStats/current/solvers: the ids
  historyStats,     \* document historyStats/<displayDoc.id>, or NoDoc
  approvedCount,    \* documents created in approvedPuzzles so far
  onCreateEvents,   \* approvedPuzzles onCreate events not yet delivered
  calls,            \* the submitSolution invocations in progress
  counted,          \* history: increments committed per participant this cycle
  response,         \* what the last HTTPS function to finish answered its caller
  probe,            \* the instants getTodayISTBounds is evaluated at
  bounds,           \* what getTodayISTBounds returned for them, <<>> before
  presenceNow,      \* the clock of the presence functions, in 5 minute units
  activeUsers,      \* collection activeUsers: set of [id, lastActive]
  lastPing,         \* history: per id, the instant of its latest successful ping
  pingCount,        \* history: per id, the pings made
  client,           \* HomeView: the refs noPuzzle and puzzle
  tasks,            \* the rotatePuzzleLogic invocations in progress
  submits,          \* the submitSolutionStats calls of HomeView in progress
  localSolved,      \* localStorage: the keys solved_<puzzleId>_<sessionId> set
  sweep             \* the cleanupActiveUsers run in progress: its snapshot

store == <<displayPuzzle, approvedPuzzles, historyPuzzles, puzzleStats,
           solvers, historyStats>>
\* What the rotation and submitSolution functions do not touch.
race == <<tasks, submits, localSolved, sweep>>
aux == <<probe, bounds, presenceNow, activeUsers, lastPing, pingCount, client,
         race>>
vars == <<now, displayPuzzle, approvedPuzzles, historyPuzzles, puzzleStats,
          solvers, historyStats, approvedCount, onCreateEvents, calls, counted,
          response, aux>>

\* ------------------------------------------------------------ pure helpers

\* (variant of getTodayISTBounds: no shift to IST, the bounds of the UTC day)
getTodayUTCBounds(t) ==
  LET startOfDay == t - (t % DayTicks)
  IN [start |-> startOfDay, end |-> startOfDay + DayTicks - 1, now |-> t]

\* getTodayISTBounds: the instant is shifted by the IST offset, and the
\* shifted value has its UTC time of day set to 00:00:00.000 / 23:59:59.999.
\* The shifted values are what is returned.
getTodayISTBounds(t) ==
  LET istNow == t + IstOffset
      startOfDay == istNow - (istNow % DayTicks)
  IN [start |-> startOfDay, end |-> startOfDay + DayTicks - 1, now |-> istNow]

\* now > expiryDate
Expired(doc, t) == t > doc.expiryDate

\* (variant of ShouldRotate: only a missing display document is replaced)
RotateIfAbsent(doc, t) == ~doc.exists

\* (variant of ShouldRotate: the expiry is not looked at)
AlwaysRotate(doc, t) == TRUE

\* The gate of checkAndRotatePuzzle, onPuzzleApproved and checkAndRotatePublic.
ShouldRotate(doc, t) == ~doc.exists \/ Expired(doc, t)

\* (variant of Before: orderBy('createdAt', 'desc'), the largest first)
After(a, b) ==
  b.createdAt < a.createdAt \/ (a.createdAt = b.createdAt /\ b.id <= a.id)

\* orderBy('createdAt', 'asc').limit(1): the smallest createdAt, and among
\* equal createdAt the smallest document id.
Before(a, b) ==
  a.createdAt < b.createdAt \/ (a.createdAt = b.createdAt /\ a.id <= b.id)

\* (variant of NextApproved: orderBy('createdAt', 'desc'))
NewestApproved(q) == CHOOSE e \in q : \A f \in q : Before(f, e)

NextApproved(q) == CHOOSE e \in q : \A f \in q : Before(e, f)

\* displayDocRef.set({...nextPuzzle fields, expiryDate: end, sourceId})
\* The fields copied from the approved puzzle (movieName, submittedBy, clues,
\* createdAt, approvedAt) are stood for by sourceId.
DisplayDoc(e, t) ==
  [exists |-> TRUE, sourceId |-> e.id,
   expiryDate |-> getTodayISTBounds(t).end]

ZeroCounts == [d \in Discs |-> 0]

\* statsDoc.exists ? statsDoc.data() : {} (no clueCounts: every count absent)
StatsData(s) == IF s.exists THEN s.clueCounts ELSE ZeroCounts

StatsDoc(counts) == [exists |-> TRUE, clueCounts |-> counts]

\* historyPuzzles.add({...currentPuzzle, finalStats: stats}) of
\* rotatePuzzleLogic; the puzzle's fields are stood for by sourceId.
HistoryDoc(doc, s) ==
  [sourceId |-> doc.sourceId, hasFinalStats |-> TRUE,
   finalStats |-> StatsData(s)]

\* (variant of StatsAfterArchive: statsRef.delete() outside the conditions)
StatsAlwaysReset(doc, s) == NoDoc

\* if (displayDoc.exists) { .. if (statsDoc.exists) { .. statsRef.delete() } }
StatsAfterArchive(doc, s) == IF doc.exists /\ s.exists THEN NoDoc ELSE s

\* historyPuzzles.add({...currentPuzzle}) of rotateDailyPuzzle: no finalStats
DailyHistoryDoc(doc) ==
  [sourceId |-> doc.sourceId, hasFinalStats |-> FALSE,
   finalStats |-> ZeroCounts]

\* (variant of Incremented: every count is incremented)
IncrementAll(s, d) == [x \in Discs |-> StatsData(s)[x] + 1]

\* if (!clueCounts[clueIndex]) clueCounts[clueIndex] = 0;
\* clueCounts[clueIndex]++ on the data read in the transaction
Incremented(s, d) == [StatsData(s) EXCEPT ![d] = @ + 1]

\* set(statsRef, {clueCounts: w}, {merge: true}) on a document whose counts
\* are cur: the keys of w (the clue indexes with a count) are written, the
\* other keys of the document stay.
MergeSet(cur, w) == [x \in Discs |-> IF w[x] > 0 THEN w[x] ELSE StatsData(cur)[x]]

IdleCall == [pc |-> "idle", ip |-> "none", clueIndex |-> 0, saw |-> NoDoc]

\* solverDoc.exists for the solver document whose id is the IP hash p
HasSolved(p) == p \in solvers

\* The schedules: '30 18 * * *' and '0 * * * *', both in Asia/Kolkata time.
DailyDue(t) == (t + IstOffset) % DayTicks = DailyCronTick
HourlyDue(t) == (t + IstOffset) % TicksPerHour = 0

\* ------------------------------------------------------------------- Init
\* The documents and the bookkeeping of the rotation and stats functions.
InitRotation ==
  /\ now = FirstInstant
  /\ displayPuzzle = NoDoc
  /\ approvedPuzzles = {}
  /\ historyPuzzles = <<>>
  /\ puzzleStats = NoDoc
  /\ solvers = {}
  /\ historyStats = NoDoc
  /\ approvedCount = 0
  /\ onCreateEvents = 0
  /\ calls = [c \in Calls |-> IdleCall]
  /\ counted = [p \in Participants |-> 0]
  /\ response = NoResponse

\* getTodayISTBounds not evaluated yet.
InitPure ==
  /\ probe = <<FirstInstant, FirstInstant>>
  /\ bounds = <<>>

\* The collection activeUsers is empty.
InitPresence ==
  /\ presenceNow = 0
  /\ activeUsers = {}
  /\ lastPing = [i \in PresenceIds |-> NoPing]
  /\ pingCount = [i \in PresenceIds |-> 0]

\* HomeView before onMounted: puzzle = ref(null), noPuzzle = ref(false).
InitClient == client = [noPuzzle |-> FALSE, puzzle |-> NoDoc]

\* No rotatePuzzleLogic, no submitSolutionStats and no cleanupActiveUsers
\* under way, localStorage without solved keys.
InitRace ==
  /\ tasks = [k \in Tasks |-> IdleTask]
  /\ submits = [u \in Players |-> IdleSubmit]
  /\ localSolved = {}
  /\ sweep = IdleSweep

Init == InitRotation /\ InitPure /\ InitPresence /\ InitClient /\ InitRace

Tick ==
  /\ \E t \in Instants : t > now /\ now' = t
  /\ UNCHANGED <<store, approvedCount, onCreateEvents, calls, counted, response>>
  /\ UNCHANGED aux

\* ----------------------------------------------------------------- queue

\* An approved puzzle is added to approvedPuzzles with a fresh document id
\* (here: ids in the order of creation); its createdAt is the instant of
\* insertion. Firestore then raises the onCreate event of onPuzzleApproved.
Approve ==
  /\ approvedCount < MaxItems
  /\ approvedCount' = approvedCount + 1
  /\ approvedPuzzles' =
       approvedPuzzles \cup {[id |-> approvedCount + 1, createdAt |-> now]}
  /\ onCreateEvents' = onCreateEvents + 1
  /\ UNCHANGED <<now, displayPuzzle, historyPuzzles, puzzleStats, solvers,
                 historyStats, calls, counted, response>>
  /\ UNCHANGED aux

\* -------------------------------------------------------------- rotation

\* rotatePuzzleLogic: the current display puzzle, if any, goes to history
\* with the stats; the stats document is copied to historyStats/<id of the
\* display document> and deleted (its solvers subcollection is not); the
\* oldest approved puzzle, if any, becomes the display puzzle and leaves
\* approvedPuzzles.
RotatePuzzleLogic ==
  /\ displayPuzzle.exists => Len(historyPuzzles) < MaxHistory
  /\ historyPuzzles' =
       IF displayPuzzle.exists
         THEN Append(historyPuzzles, HistoryDoc(displayPuzzle, puzzleStats))
         ELSE historyPuzzles
  /\ historyStats' =
       IF displayPuzzle.exists /\ puzzleStats.exists
         THEN puzzleStats ELSE historyStats
  /\ puzzleStats' = StatsAfterArchive(displayPuzzle, puzzleStats)
  /\ IF approvedPuzzles = {}
       THEN UNCHANGED <<displayPuzzle, approvedPuzzles, counted>>
       ELSE LET next == NextApproved(approvedPuzzles)
            IN /\ displayPuzzle' = DisplayDoc(next, now)
               /\ approvedPuzzles' = approvedPuzzles \ {next}
               /\ counted' = [p \in Participants |-> 0]
  /\ UNCHANGED solvers

\* rotateDailyPuzzle: the scheduled rotation. No expiry check, no stats.
RotateDailyPuzzle ==
  /\ DailyDue(now)
  /\ displayPuzzle.exists => Len(historyPuzzles) < MaxHistory
  /\ historyPuzzles' =
       IF displayPuzzle.exists
         THEN Append(historyPuzzles, DailyHistoryDoc(displayPuzzle))
         ELSE historyPuzzles
  /\ IF approvedPuzzles = {}
       THEN UNCHANGED <<displayPuzzle, approvedPuzzles, counted>>
       ELSE LET next == NextApproved(approvedPuzzles)
            IN /\ displayPuzzle' = DisplayDoc(next, now)
               /\ approvedPuzzles' = approvedPuzzles \ {next}
               /\ counted' = [p \in Participants |-> 0]
  /\ UNCHANGED <<now, puzzleStats, solvers, historyStats, approvedCount,
                 onCreateEvents, calls, response>>
  /\ UNCHANGED aux

\* (variant of CheckAndRotatePuzzle: the expiry is not looked at, only a
\* missing display document starts a rotation)
CheckOnlyAbsent ==
  /\ HourlyDue(now)
  /\ IF ~displayPuzzle.exists
       THEN RotatePuzzleLogic
       ELSE UNCHANGED <<store, counted>>
  /\ UNCHANGED <<now, approvedCount, onCreateEvents, calls, response>>
  /\ UNCHANGED aux

\* checkAndRotatePuzzle: the hourly backup.
CheckAndRotatePuzzle ==
  /\ HourlyDue(now)
  /\ IF ShouldRotate(displayPuzzle, now)
       THEN RotatePuzzleLogic
       ELSE UNCHANGED <<store, counted>>
  /\ UNCHANGED <<now, approvedCount, onCreateEvents, calls, response>>
  /\ UNCHANGED aux

\* onPuzzleApproved: runs once per document created in approvedPuzzles.
OnPuzzleApproved ==
  /\ onCreateEvents > 0
  /\ onCreateEvents' = onCreateEvents - 1
  /\ IF ShouldRotate(displayPuzzle, now)
       THEN RotatePuzzleLogic
       ELSE UNCHANGED <<store, counted>>
  /\ UNCHANGED <<now, approvedCount, calls, response>>
  /\ UNCHANGED aux

\* (variant of Authenticated: context.auth is not looked at)
AnyCaller(auth) == TRUE

\* context.auth of the callable's context: set when the caller is signed in.
Authenticated(auth) == auth

\* manualRotatePuzzle called with or without context.auth: a caller without
\* is rejected before anything is read.
ManualRotate(auth) ==
  /\ IF Authenticated(auth)
       THEN /\ RotatePuzzleLogic
            /\ response' = "success:true"
       ELSE /\ UNCHANGED <<store, counted>>
            /\ response' = "unauthenticated"
  /\ UNCHANGED <<now, approvedCount, onCreateEvents, calls>>
  /\ UNCHANGED aux

\* manualRotatePuzzle: callable; rejects a caller without context.auth.
ManualRotatePuzzle == \E auth \in BOOLEAN : ManualRotate(auth)

\* What checkAndRotatePublic does to the documents and answers: rotated: true
\* whenever it called rotatePuzzleLogic.
PublicCheck ==
  IF ShouldRotate(displayPuzzle, now)
    THEN /\ RotatePuzzleLogic
         /\ response' = "rotated:true"
    ELSE /\ UNCHANGED <<store, counted>>
         /\ response' = "rotated:false"

\* checkAndRotatePublic: the HTTPS function, here with every store call
\* succeeding.
CheckAndRotatePublic ==
  /\ PublicCheck
  /\ UNCHANGED <<now, approvedCount, onCreateEvents, calls>>
  /\ UNCHANGED aux

\* --------------------------------------------------------- submitSolution

\* (variant of TxnWrites: the solver document is not written)
TxnWritesNoMarker(p, d, saw) ==
  /\ puzzleStats' = StatsDoc(MergeSet(puzzleStats, Incremented(saw, d)))
  /\ solvers' = solvers
  /\ counted' = [counted EXCEPT ![p] = @ + 1]

\* What the transaction writes for participant p (the hash of the caller's
\* IP) and clue index d, from the stats data it read:
\* t.set(statsRef, stats, {merge: true}); t.set(solverRef, {..}).
TxnWrites(p, d, saw) ==
  /\ puzzleStats' = StatsDoc(MergeSet(puzzleStats, Incremented(saw, d)))
  /\ solvers' = solvers \cup {p}
  /\ counted' = [counted EXCEPT ![p] = @ + 1]

\* submitSolution run with no other writer in between: the transaction
\* commits at its first attempt.
SubmitSolution(p, d) ==
  /\ IF HasSolved(p)
       THEN UNCHANGED <<puzzleStats, solvers, counted>>
       ELSE TxnWrites(p, d, puzzleStats)
  /\ response' = "success:true"
  /\ UNCHANGED <<now, displayPuzzle, approvedPuzzles, historyPuzzles,
                 historyStats, approvedCount, onCreateEvents, calls>>
  /\ UNCHANGED aux

\* (variant of TxnValid: a plain read-then-write, nothing checked)
TxnValidAlways(c) == TRUE

\* What db.runTransaction checks when it commits: no document the
\* transaction read has changed since; otherwise the update function runs
\* again.
TxnValid(c) == ~HasSolved(calls[c].ip) /\ puzzleStats = calls[c].saw

\* One run of the update function up to its writes: t.get(solverRef), and
\* t.get(statsRef) unless the solver document exists, in which case the
\* transaction ends with nothing written and submitSolution returns.
TxnRun(c, p, d) ==
  /\ IF HasSolved(p)
       THEN /\ calls' = [calls EXCEPT ![c] = IdleCall]
            /\ response' = "success:true"
       ELSE /\ calls' = [calls EXCEPT ![c] =
                 [pc |-> "read", ip |-> p, clueIndex |-> d,
                  saw |-> puzzleStats]]
            /\ UNCHANGED response
  /\ UNCHANGED <<puzzleStats, solvers, counted>>

\* submitSolution is called, concurrently with other invocations.
TxnStart(c) ==
  /\ calls[c].pc = "idle"
  /\ \E p \in Participants, d \in Discs : TxnRun(c, p, d)
  /\ UNCHANGED <<now, displayPuzzle, approvedPuzzles, historyPuzzles,
                 historyStats, approvedCount, onCreateEvents>>
  /\ UNCHANGED aux

\* The commit: both writes take effect together and submitSolution returns
\* {success: true}; or a document read has changed and the update function
\* runs again.
TxnCommit(c) ==
  /\ calls[c].pc = "read"
  /\ IF TxnValid(c)
       THEN /\ TxnWrites(calls[c].ip, calls[c].clueIndex, calls[c].saw)
            /\ calls' = [calls EXCEPT ![c] = IdleCall]
            /\ response' = "success:true"
       ELSE TxnRun(c, calls[c].ip, calls[c].clueIndex)
  /\ UNCHANGED <<now, displayPuzzle, approvedPuzzles, historyPuzzles,
                 historyStats, approvedCount, onCreateEvents>>
  /\ UNCHANGED aux

\* ------------------------------------------------------- specifications

\* Every Cloud Function runs alone, from its first read to its last write.
Next ==
  \/ Tick
  \/ Approve
  \/ RotateDailyPuzzle
  \/ CheckAndRotatePuzzle
  \/ OnPuzzleApproved
  \/ ManualRotatePuzzle
  \/ CheckAndRotatePublic
  \/ \E p \in Participants, d \in Discs : SubmitSolution(p, d)

Spec == Init /\ [][Next]_vars

\* Concurrent submitSolution invocations, their transactions step by step,
\* among approvals and manual rotations.
NextTxn ==
  \/ Approve
  \/ ManualRotatePuzzle
  \/ \E c \in Calls : TxnStart(c)
  \/ \E c \in Calls : TxnCommit(c)

SpecTxn == Init /\ [][NextTxn]_vars

\* ---------------------------------------------------------------- presence

\* What the presence functions leave alone.
rotation == <<now, store, approvedCount, onCreateEvents, calls, counted>>

\* (variant of Upsert: collection.add, a new document at every ping)
AddRecord(users, id, t) == users \cup {[id |-> id, lastActive |-> t]}

\* collection('activeUsers').doc(id).set({lastActive: t}): the document with
\* this id is created or replaced.
Upsert(users, id, t) ==
  {r \in users : r.id # id} \cup {[id |-> id, lastActive |-> t]}

\* (variant of PingAnswer: the error is thrown to the caller)
PingThrows(ok) == IF ok THEN "success:true" ELSE "internal:error.message"

\* return { success: true } / catch: return { success: false }
PingAnswer(ok) == IF ok THEN "success:true" ELSE "success:false"

\* pingPresence, the callable, from the IP whose hash is p; ok tells whether
\* the set() succeeds.
PingPresence(p, ok) ==
  /\ pingCount[p] < MaxPings
  /\ pingCount' = [pingCount EXCEPT ![p] = @ + 1]
  /\ IF ok
       THEN /\ activeUsers' = Upsert(activeUsers, p, presenceNow)
            /\ lastPing' = [lastPing EXCEPT ![p] = presenceNow]
       ELSE UNCHANGED <<activeUsers, lastPing>>
  /\ response' = PingAnswer(ok)
  /\ UNCHANGED <<rotation, probe, bounds, presenceNow, client, race>>

\* pingPresence of HomeView, run at mount and every minute: setDoc on the
\* document named by the cinemist_session id; an error is logged.
ClientPing(id, ok) ==
  /\ pingCount[id] < MaxPings
  /\ pingCount' = [pingCount EXCEPT ![id] = @ + 1]
  /\ IF ok
       THEN /\ activeUsers' = Upsert(activeUsers, id, presenceNow)
            /\ lastPing' = [lastPing EXCEPT ![id] = presenceNow]
       ELSE UNCHANGED <<activeUsers, lastPing>>
  /\ UNCHANGED <<rotation, response, probe, bounds, presenceNow, client, race>>

\* cleanupActiveUsers, every 15 minutes: the documents with
\* lastActive < now - 10 minutes are deleted in one batch.
CleanupActiveUsers ==
  /\ presenceNow % CleanupEvery = 0
  /\ activeUsers' =
       {r \in activeUsers : ~(r.lastActive < presenceNow - CleanupCutoff)}
  /\ UNCHANGED <<rotation, response, probe, bounds, presenceNow, lastPing,
                 pingCount, client, race>>

PresenceTick ==
  /\ presenceNow < MaxClock
  /\ presenceNow' = presenceNow + 1
  /\ UNCHANGED <<rotation, response, probe, bounds, activeUsers, lastPing,
                 pingCount, client, race>>

NextPresence ==
  \/ PresenceTick
  \/ \E p \in Participants, ok \in BOOLEAN : PingPresence(p, ok)
  \/ \E id \in Sessions, ok \in BOOLEAN : ClientPing(id, ok)
  \/ CleanupActiveUsers

SpecPresence == Init /\ [][NextPresence]_vars

\* cleanupActiveUsers up to the result of its query: the documents with
\* lastActive < now - 10 minutes. With an empty snapshot it returns.
SweepQuery ==
  /\ presenceNow % CleanupEvery = 0
  /\ sweep.pc = "idle"
  /\ LET docs == {r.id : r \in {q \in activeUsers :
                          q.lastActive < presenceNow - CleanupCutoff}}
     IN sweep' = IF docs = {} THEN IdleSweep
                 ELSE [pc |-> "queried", docs |-> docs]
  /\ UNCHANGED <<rotation, response, probe, bounds, presenceNow, activeUsers,
                 lastPing, pingCount, client, tasks, submits, localSolved>>

\* batch.commit(): every document of the snapshot is deleted by its
\* reference, whatever it holds by then.
SweepCommit ==
  /\ sweep.pc = "queried"
  /\ activeUsers' = {r \in activeUsers : r.id \notin sweep.docs}
  /\ sweep' = IdleSweep
  /\ UNCHANGED <<rotation, response, probe, bounds, presenceNow, lastPing,
                 pingCount, client, tasks, submits, localSolved>>

\* Pings while cleanupActiveUsers runs, its query and its commit apart.
NextSweep ==
  \/ PresenceTick
  \/ \E p \in Participants, ok \in BOOLEAN : PingPresence(p, ok)
  \/ \E id \in Sessions, ok \in BOOLEAN : ClientPing(id, ok)
  \/ SweepQuery
  \/ SweepCommit

SpecSweep == Init /\ [][NextSweep]_vars

\* ----------------------------------------------------------- store failures

\* The store calls of rotatePuzzleLogic, in the order it makes them.
RotateSteps ==
  <<"getDisplay", "getStats", "addHistory", "setHistoryStats", "deleteStats",
    "queryApproved", "setDisplay", "deleteApproved">>

\* The store call that fails if the invocation gets to it: none, the
\* displayDocRef.get() of checkAndRotatePublic itself, or one of
\* rotatePuzzleLogic.
FailPoints ==
  {"none", "gate"} \cup {RotateSteps[i] : i \in 1..Len(RotateSteps)}

StepNo(step) == CHOOSE i \in 1..Len(RotateSteps) : RotateSteps[i] = step

\* Whether rotatePuzzleLogic, run on the documents as they are, makes the
\* store call: the conditions the call stands under.
Reached(step) ==
  CASE step \in {"getDisplay", "queryApproved"} -> TRUE
    [] step \in {"getStats", "addHistory"} -> displayPuzzle.exists
    [] step \in {"setHistoryStats", "deleteStats"} ->
         displayPuzzle.exists /\ puzzleStats.exists
    [] step \in {"setDisplay", "deleteApproved"} -> approvedPuzzles # {}
    [] OTHER -> FALSE

\* Whether the store call is made and succeeds when the call f is the one
\* that fails: a failed await throws, and the calls after it are not made.
Done(step, f) ==
  Reached(step) /\ (Reached(f) => StepNo(step) < StepNo(f))

\* rotatePuzzleLogic with the store call f failing.
RotatePuzzleLogicAt(f) ==
  /\ Done("addHistory", f) => Len(historyPuzzles) < MaxHistory
  /\ historyPuzzles' =
       IF Done("addHistory", f)
         THEN Append(historyPuzzles, HistoryDoc(displayPuzzle, puzzleStats))
         ELSE historyPuzzles
  /\ historyStats' =
       IF Done("setHistoryStats", f) THEN puzzleStats ELSE historyStats
  /\ puzzleStats' = IF Done("deleteStats", f) THEN NoDoc ELSE puzzleStats
  /\ IF Done("setDisplay", f)
       THEN /\ displayPuzzle' = DisplayDoc(NextApproved(approvedPuzzles), now)
            /\ counted' = [p \in Participants |-> 0]
       ELSE UNCHANGED <<displayPuzzle, counted>>
  /\ approvedPuzzles' =
       IF Done("deleteApproved", f)
         THEN approvedPuzzles \ {NextApproved(approvedPuzzles)}
         ELSE approvedPuzzles
  /\ UNCHANGED solvers

\* Whether checkAndRotatePublic gets to the failing call f.
PublicThrew(f) ==
  f = "gate" \/ (ShouldRotate(displayPuzzle, now) /\ Reached(f))

\* checkAndRotatePublic with the store call f failing: the catch answers
\* status 200 with { rotated: false, error: error.message }.
CheckAndRotatePublicAt(f) ==
  /\ IF f = "gate" \/ ~ShouldRotate(displayPuzzle, now)
       THEN UNCHANGED <<store, counted>>
       ELSE RotatePuzzleLogicAt(f)
  /\ response' =
       IF PublicThrew(f) THEN "rotated:false,error"
       ELSE IF ShouldRotate(displayPuzzle, now) THEN "rotated:true"
       ELSE "rotated:false"
  /\ UNCHANGED <<now, approvedCount, onCreateEvents, calls>>
  /\ UNCHANGED aux

\* manualRotatePuzzle with the store call f failing: the catch throws
\* HttpsError('internal', error.message).
ManualRotateAt(auth, f) ==
  /\ IF Authenticated(auth)
       THEN /\ RotatePuzzleLogicAt(f)
            /\ response' = IF Reached(f) THEN "internal:error.message"
                                        ELSE "success:true"
       ELSE /\ UNCHANGED <<store, counted>>
            /\ response' = "unauthenticated"
  /\ UNCHANGED <<now, approvedCount, onCreateEvents, calls>>
  /\ UNCHANGED aux

\* submitSolution with the transaction succeeding or failing: a failed
\* transaction writes nothing and the catch throws
\* HttpsError('internal', 'Failed to submit solution').
SubmitSolutionAt(p, d, ok) ==
  IF ok
    THEN SubmitSolution(p, d)
    ELSE /\ response' = "internal:Failed to submit solution"
         /\ UNCHANGED <<rotation, aux>>

\* The IP the pings among the failing calls come from.
OneCaller == CHOOSE p \in Participants : TRUE

\* Store failures at one instant: approvals, the three callables and the
\* public HTTPS function, each with any one of its store calls failing.
NextFail ==
  \/ Approve
  \/ \E f \in FailPoints : CheckAndRotatePublicAt(f)
  \/ \E auth \in BOOLEAN, f \in FailPoints : ManualRotateAt(auth, f)
  \/ \E p \in Participants, d \in Discs, ok \in BOOLEAN : SubmitSolutionAt(p, d, ok)
  \/ \E ok \in BOOLEAN : PingPresence(OneCaller, ok)

SpecFail == Init /\ [][NextFail]_vars

\* ------------------------------------------------------------------ client

\* onMounted of HomeView, a page load: rotatePuzzleIfNeeded, then
\* getCurrentDisplayPuzzle. rotatePuzzleIfNeeded reads the display document
\* (checkDisplayPuzzleExpiry) and, when it is absent or expired, posts to
\* checkAndRotatePublic; net tells whether the fetch succeeds. Only the
\* reason 'no_approved_puzzles' (answer not rotated, display still absent
\* or expired) ends onMounted before the display document is read; that
\* document, if there is one, becomes the puzzle shown. The first
\* pingPresence, started without await, is the step ClientPing.
OnMounted(net) ==
  /\ IF ShouldRotate(displayPuzzle, now) /\ net
       THEN PublicCheck
       ELSE UNCHANGED <<store, counted, response>>
  /\ client' =
       IF /\ ShouldRotate(displayPuzzle, now) /\ net
          /\ response' # "rotated:true"
          /\ ShouldRotate(displayPuzzle', now)
         THEN [noPuzzle |-> TRUE, puzzle |-> NoDoc]
         ELSE IF displayPuzzle'.exists
                THEN [noPuzzle |-> FALSE, puzzle |-> displayPuzzle']
                ELSE [noPuzzle |-> TRUE, puzzle |-> NoDoc]
  /\ UNCHANGED <<now, approvedCount, onCreateEvents, calls, probe, bounds,
                 presenceNow, activeUsers, lastPing, pingCount, race>>

\* Page loads among approvals, over the days.
NextClient ==
  \/ Tick
  \/ Approve
  \/ OnPuzzleApproved
  \/ \E net \in BOOLEAN : OnMounted(net)

SpecClient == Init /\ [][NextClient]_vars

\* ---------------------------------------------------- concurrent rotations

\* What a step of a rotatePuzzleLogic invocation leaves alone, besides the
\* documents it does not write.
taskFrame ==
  <<now, approvedCount, onCreateEvents, calls, response, probe, bounds,
    presenceNow, activeUsers, lastPing, pingCount, client, submits,
    localSolved, sweep>>

\* A gated entry point (checkAndRotatePuzzle, onPuzzleApproved,
\* checkAndRotatePublic) reads the display document, finds it absent or
\* expired and calls rotatePuzzleLogic. Otherwise it returns, nothing done.
TaskGate(k) ==
  /\ tasks[k].pc \in {"idle", "done"}
  /\ ShouldRotate(displayPuzzle, now) = TRUE
  /\ tasks' = [tasks EXCEPT ![k] =
       [IdleTask EXCEPT !.pc = "getDisplay", !.gate = approvedPuzzles]]
  /\ UNCHANGED <<store, counted, taskFrame>>

\* const displayDoc = await displayDocRef.get()
TaskGetDisplay(k) ==
  /\ tasks[k].pc = "getDisplay"
  /\ tasks' = [tasks EXCEPT ![k].displayDoc = displayPuzzle,
                            ![k].pc = IF displayPuzzle.exists
                                        THEN "getStats" ELSE "queryApproved"]
  /\ UNCHANGED <<store, counted, taskFrame>>

\* const statsDoc = await statsRef.get()
TaskGetStats(k) ==
  /\ tasks[k].pc = "getStats"
  /\ tasks' = [tasks EXCEPT ![k].statsDoc = puzzleStats,
                            ![k].pc = "addHistory"]
  /\ UNCHANGED <<store, counted, taskFrame>>

\* await historyPuzzles.add({...currentPuzzle, finalStats: stats})
TaskAddHistory(k) ==
  /\ tasks[k].pc = "addHistory"
  /\ Len(historyPuzzles) < MaxHistory
  /\ historyPuzzles' =
       Append(historyPuzzles,
              HistoryDoc(tasks[k].displayDoc, tasks[k].statsDoc))
  /\ tasks' = [tasks EXCEPT ![k].pc = IF tasks[k].statsDoc.exists
                                        THEN "setHistoryStats"
                                        ELSE "queryApproved"]
  /\ UNCHANGED <<displayPuzzle, approvedPuzzles, puzzleStats, solvers,
                 historyStats, counted, taskFrame>>

\* await historyStats.doc(displayDoc.id).set({...stats})
TaskSetHistoryStats(k) ==
  /\ tasks[k].pc = "setHistoryStats"
  /\ historyStats' = tasks[k].statsDoc
  /\ tasks' = [tasks EXCEPT ![k].pc = "deleteStats"]
  /\ UNCHANGED <<displayPuzzle, approvedPuzzles, historyPuzzles, puzzleStats,
                 solvers, counted, taskFrame>>

\* await statsRef.delete()
TaskDeleteStats(k) ==
  /\ tasks[k].pc = "deleteStats"
  /\ puzzleStats' = NoDoc
  /\ tasks' = [tasks EXCEPT ![k].pc = "queryApproved"]
  /\ UNCHANGED <<displayPuzzle, approvedPuzzles, historyPuzzles, solvers,
                 historyStats, counted, taskFrame>>

\* const approvedSnapshot = await approvedQuery.get(); return null if empty
TaskQueryApproved(k) ==
  /\ tasks[k].pc = "queryApproved"
  /\ tasks' =
       IF approvedPuzzles = {}
         THEN [tasks EXCEPT ![k].pc = "done"]
         ELSE [tasks EXCEPT ![k].nextPuzzleDoc = NextApproved(approvedPuzzles),
                            ![k].pc = "setDisplay"]
  /\ UNCHANGED <<store, counted, taskFrame>>

\* await displayDocRef.set({...nextPuzzle, expiryDate: end, sourceId})
TaskSetDisplay(k) ==
  /\ tasks[k].pc = "setDisplay"
  /\ displayPuzzle' = DisplayDoc(tasks[k].nextPuzzleDoc, now)
  /\ counted' = [p \in Participants |-> 0]
  /\ tasks' = [tasks EXCEPT ![k].pc = "deleteApproved"]
  /\ UNCHANGED <<approvedPuzzles, historyPuzzles, puzzleStats, solvers,
                 historyStats, taskFrame>>

\* await nextPuzzleDoc.ref.delete(): deleting a document already deleted
\* succeeds.
TaskDeleteApproved(k) ==
  /\ tasks[k].pc = "deleteApproved"
  /\ approvedPuzzles' = approvedPuzzles \ {tasks[k].nextPuzzleDoc}
  /\ tasks' = [tasks EXCEPT ![k].pc = "done"]
  /\ UNCHANGED <<displayPuzzle, historyPuzzles, puzzleStats, solvers,
                 historyStats, counted, taskFrame>>

\* One store call of the invocation k.
TaskStep(k) ==
  \/ TaskGetDisplay(k)
  \/ TaskGetStats(k)
  \/ TaskAddHistory(k)
  \/ TaskSetHistoryStats(k)
  \/ TaskDeleteStats(k)
  \/ TaskQueryApproved(k)
  \/ TaskSetDisplay(k)
  \/ TaskDeleteApproved(k)

\* Gated entry points invoked at any time, their store calls interleaved,
\* among approvals and the submissions of one participant, over the days.
NextRace ==
  \/ Tick
  \/ Approve
  \/ \E k \in Tasks : TaskGate(k)
  \/ \E k \in Tasks : TaskStep(k)
  \/ \E d \in Discs : SubmitSolution(OneCaller, d)

SpecRace == Init /\ [][NextRace]_vars

\* The invocation that rotates while submitSolution is called.
OneTask == CHOOSE k \in Tasks : TRUE

\* One gated entry point at a time, its store calls interleaved with
\* submitSolution calls (each a transaction, run as one step), among
\* approvals, over the days.
NextSnap ==
  \/ Tick
  \/ Approve
  \/ TaskGate(OneTask)
  \/ TaskStep(OneTask)
  \/ \E p \in Participants, d \in Discs : SubmitSolution(p, d)

SpecSnap == Init /\ [][NextSnap]_vars

\* ------------------------------------------------- submitSolutionStats

\* What a step of the game client's submitSolutionStats leaves alone.
submitFrame ==
  <<now, displayPuzzle, approvedPuzzles, historyPuzzles, solvers,
    historyStats, approvedCount, onCreateEvents, calls, counted, response,
    probe, bounds, presenceNow, activeUsers, lastPing, pingCount, client,
    tasks, sweep>>

\* localStorage key solved_<puzzleId>_<sessionId> of the player u.
SolverKey(puzzleId, u) == <<puzzleId, u>>

\* submitSolutionStats(clueIndex) of the session u up to its await getDoc:
\* the puzzle shown is the display document, whose data has sourceId; the
\* function returns when the solved key is in localStorage, else it reads
\* puzzleStats/current.
ClientRead(u, d) ==
  /\ submits[u].pc = "idle"
  /\ displayPuzzle.exists
  /\ SolverKey(displayPuzzle.sourceId, u) \notin localSolved
  /\ submits' = [submits EXCEPT ![u] =
       [pc |-> "read", clueIndex |-> d, puzzleId |-> displayPuzzle.sourceId,
        saw |-> puzzleStats]]
  /\ UNCHANGED <<puzzleStats, localSolved, submitFrame>>

\* The rest of submitSolutionStats: the count of the clue index is
\* incremented in the data read, setDoc(statsRef, {clueCounts}, {merge:
\* true}) writes it, and the solved key goes to localStorage.
ClientWrite(u) ==
  /\ submits[u].pc = "read"
  /\ puzzleStats' = StatsDoc(MergeSet(puzzleStats,
                       Incremented(submits[u].saw, submits[u].clueIndex)))
  /\ localSolved' = localSolved \cup {SolverKey(submits[u].puzzleId, u)}
  /\ submits' = [submits EXCEPT ![u] = IdleSubmit]
  /\ UNCHANGED submitFrame

\* Players who solve the display puzzle, each in their own browser, among
\* approvals.
NextSubmit ==
  \/ Approve
  \/ OnPuzzleApproved
  \/ \E u \in Players, d \in Discs : ClientRead(u, d)
  \/ \E u \in Players : ClientWrite(u)

SpecSubmit == Init /\ [][NextSubmit]_vars

\* ------------------------------------------------- the hourly backup alone

\* The instants of the runs in which the hourly backup has to recover: those
\* of Instants and 18:00 UTC of day 1, a full hour in Asia/Kolkata after the
\* second firing of the daily schedule.
LiveInstants == Instants \cup {85}

\* The last firing of '0 * * * *' within the instants.
LastFallback ==
  CHOOSE t \in LiveInstants :
    HourlyDue(t) /\ \A u \in LiveInstants : HourlyDue(u) => u <= t

\* A rotation is due and there is a puzzle to promote.
RotationPending == ShouldRotate(displayPuzzle, now) /\ approvedPuzzles # {}

\* Time passes to the next instant, with or without a firing of the
\* schedules at the current one (a firing that does not happen, or whose
\* first store call fails, writes nothing). The last hourly firing is not
\* left behind while a rotation is pending: that firing takes place and its
\* store calls succeed.
Pass ==
  /\ ~(now = LastFallback /\ RotationPending)
  /\ \E t \in LiveInstants :
       /\ t > now
       /\ \A u \in LiveInstants : u > now => t <= u
       /\ now' = t
  /\ UNCHANGED <<store, approvedCount, onCreateEvents, calls, counted,
                 response>>
  /\ UNCHANGED aux

\* rotateDailyPuzzle fails at approvedQuery.get(): the display puzzle has
\* been added to the history, nothing else is written and the error is
\* rethrown.
RotateDailyPuzzleFails ==
  /\ DailyDue(now)
  /\ displayPuzzle.exists
  /\ Len(historyPuzzles) + 1 < MaxHistory
  /\ historyPuzzles' = Append(historyPuzzles, DailyHistoryDoc(displayPuzzle))
  /\ UNCHANGED <<now, displayPuzzle, approvedPuzzles, puzzleStats, solvers,
                 historyStats, approvedCount, onCreateEvents, calls, counted,
                 response>>
  /\ UNCHANGED aux

\* The two schedules over the days, among approvals; the daily firing may
\* not happen, or fail.
NextLive ==
  \/ Pass
  \/ Approve
  \/ RotateDailyPuzzle
  \/ RotateDailyPuzzleFails
  \/ CheckAndRotatePuzzle

\* Time passes, and '0 * * * *' fires checkAndRotatePuzzle at every full
\* hour; nothing is assumed of the daily schedule.
SpecLive ==
  /\ Init
  /\ [][NextLive]_vars
  /\ WF_vars(Pass)
  /\ WF_vars(CheckAndRotatePuzzle)

\* getTodayISTBounds on its own: evaluated at two instants of the first days.
InitBounds ==
  /\ InitRotation /\ InitPresence /\ InitClient /\ InitRace
  /\ probe \in (0..MaxInstant) \X (0..MaxInstant)
  /\ bounds = <<>>

ApplyBounds ==
  /\ bounds = <<>>
  /\ bounds' = <<getTodayISTBounds(probe[1]), getTodayISTBounds(probe[2])>>
  /\ UNCHANGED <<now, store, approvedCount, onCreateEvents, calls, counted,
                 response, probe, presenceNow, activeUsers, lastPing,
                 pingCount, client, race>>

NextBounds == ApplyBounds

SpecBounds == InitBounds /\ [][NextBounds]_vars

\* ----------------------------------------------------------------- claims

\* The rotation entry points that check the expiry first.
GatedTrigger == CheckAndRotatePuzzle \/ OnPuzzleApproved \/ CheckAndRotatePublic

\* Every rotation entry point.
AnyRotation == GatedTrigger \/ RotateDailyPuzzle \/ ManualRotatePuzzle

\* The entry points that run rotatePuzzleLogic.
LogicRotation == GatedTrigger \/ ManualRotatePuzzle

\* The queue entry with the smallest createdAt, the smallest id among equals.
IsOldest(e, q) ==
  /\ e \in q
  /\ \A f \in q : \/ e.createdAt < f.createdAt
                  \/ (e.createdAt = f.createdAt /\ e.id <= f.id)

\* C1: whatever the interleaving of the submitSolution transactions, the
\* increments committed for one participant within one display cycle are at
\* most one.
C1_AtMostOncePerParticipant == \A p \in Participants : counted[p] <= 1

\* C1 witness: a participant's increment is committed while another
\* invocation of the same participant, which read no solver document, is
\* still in its transaction.
C1_Witness ==
  \E p \in Participants, c \in Calls :
    counted[p] = 1 /\ calls[c].pc = "read" /\ calls[c].ip = p

\* C2: a gated rotation entry point that runs alone with the display absent
\* or expired and a non-empty queue installs the oldest queue entry as the
\* display, removes exactly that entry from the queue, and adds to the
\* history exactly one entry, the previous display puzzle with the stats of
\* that moment, if there was a display, and none otherwise.
C2_RotationEffect ==
  [][(GatedTrigger /\ ShouldRotate(displayPuzzle, now) /\ approvedPuzzles # {})
       => \E e \in approvedPuzzles :
            /\ IsOldest(e, approvedPuzzles)
            /\ displayPuzzle'.exists /\ displayPuzzle'.sourceId = e.id
            /\ approvedPuzzles' = approvedPuzzles \ {e}
            /\ historyPuzzles' =
                 IF displayPuzzle.exists
                   THEN Append(historyPuzzles,
                          [sourceId |-> displayPuzzle.sourceId,
                           hasFinalStats |-> TRUE,
                           finalStats |-> IF puzzleStats.exists
                                            THEN puzzleStats.clueCounts
                                            ELSE ZeroCounts])
                   ELSE historyPuzzles]_vars

\* C2 witness: checkAndRotatePublic has replaced an expired display puzzle
\* that had solvers by the queued puzzle.
C2_Witness ==
  /\ response = "rotated:true"
  /\ displayPuzzle.exists
  /\ now <= displayPuzzle.expiryDate
  /\ Len(historyPuzzles) = 1
  /\ historyPuzzles[1].finalStats # ZeroCounts
  /\ displayPuzzle.sourceId # historyPuzzles[1].sourceId
  /\ ~puzzleStats.exists

\* C3: while a display puzzle exists and now <= its expiryDate, a gated
\* rotation entry point changes no document, and checkAndRotatePublic
\* answers rotated: false.
C3_NoOpUntilExpiry ==
  [][(GatedTrigger /\ displayPuzzle.exists /\ now <= displayPuzzle.expiryDate)
       => /\ UNCHANGED store
          /\ CheckAndRotatePublic => response' = "rotated:false"]_vars

\* C3 witness: checkAndRotatePublic has answered rotated: false while a
\* puzzle waits in the queue behind an unexpired display puzzle.
C3_Witness ==
  /\ response = "rotated:false"
  /\ displayPuzzle.exists /\ now <= displayPuzzle.expiryDate
  /\ approvedPuzzles # {}

\* C4: after a rotation that archived the outgoing display puzzle and
\* installed the next one, the stats document is gone and no solver marker
\* of the previous cycle is left.
C4_CycleStartsClean ==
  [][(LogicRotation /\ displayPuzzle.exists
        /\ historyPuzzles' # historyPuzzles
        /\ displayPuzzle'.sourceId # displayPuzzle.sourceId)
       => ~puzzleStats'.exists /\ solvers' = {}]_vars

\* C5: a gated rotation entry point that finds an expired display puzzle
\* and an empty queue archives the puzzle and leaves no display document.
C5_SlotClearedOnEmptyQueue ==
  [][(GatedTrigger /\ displayPuzzle.exists /\ now > displayPuzzle.expiryDate
        /\ approvedPuzzles = {})
       => Len(historyPuzzles') = Len(historyPuzzles) + 1
          /\ ~displayPuzzle'.exists]_vars

\* C6: the history never holds two entries for the same displayed puzzle.
C6_ArchivedOnce ==
  \A i, j \in 1..Len(historyPuzzles) :
    i # j => historyPuzzles[i].sourceId # historyPuzzles[j].sourceId

\* C7: checkAndRotatePublic answers rotated: true, and manualRotatePuzzle
\* success, only when the invocation moved a queue entry into the display.
C7_ReportsOnlyRealRotation ==
  [][((CheckAndRotatePublic /\ response' = "rotated:true")
        \/ (ManualRotatePuzzle /\ response' = "success:true"))
       => \E e \in approvedPuzzles :
            /\ approvedPuzzles' = approvedPuzzles \ {e}
            /\ displayPuzzle'.exists /\ displayPuzzle'.sourceId = e.id]_vars

\* C8: with an empty queue and no display document, no rotation entry
\* point changes any document: display, queue, history, stats, solvers.
C8_NothingToRotate ==
  [][(AnyRotation /\ approvedPuzzles = {} /\ ~displayPuzzle.exists)
       => UNCHANGED store]_vars

\* C8 witness: checkAndRotatePublic has run with no display, an empty queue
\* and a stats document with solvers in place.
C8_Witness ==
  /\ response = "rotated:true"
  /\ ~displayPuzzle.exists /\ approvedPuzzles = {}
  /\ puzzleStats.exists /\ solvers # {}

C10_ResultTellsCounted ==
  [][\A p \in Participants, d \in Discs :
       SubmitSolution(p, d) => (response' = "success:true" <=> p \notin solvers)]_vars

\* The civil day, under the fixed offset UTC+5:30, that holds the instant t.
CivilDay(t) == (t + IstOffset) \div DayTicks

\* C11: the start and end getTodayISTBounds returns for an instant are
\* instants of the civil day (UTC+5:30) that holds it, start <= now <= end,
\* and the end is the last one before the next civil day begins.
C11_BoundsAreAbsolute ==
  bounds # <<>> =>
    \A i \in 1..Len(bounds) :
      /\ bounds[i].start <= probe[i] /\ probe[i] <= bounds[i].end
      /\ CivilDay(bounds[i].start) = CivilDay(probe[i])
      /\ CivilDay(bounds[i].end) = CivilDay(probe[i])
      /\ CivilDay(bounds[i].end + 1) # CivilDay(probe[i])

\* C12: two instants of the same civil day (UTC+5:30) get the same end from
\* getTodayISTBounds, two instants of different civil days different ends.
C12_EndPerCivilDay ==
  bounds # <<>> =>
    (CivilDay(probe[1]) = CivilDay(probe[2]) <=> bounds[1].end = bounds[2].end)

\* C12 witness: getTodayISTBounds was evaluated at 18:30 UTC of one day and
\* at 01:00 UTC of the next, the same civil day, and at two instants of one
\* UTC day either side of 18:30.
C12_Witness ==
  /\ bounds # <<>>
  /\ probe[1] # probe[2]
  /\ probe[1] \div DayTicks # probe[2] \div DayTicks
  /\ CivilDay(probe[1]) = CivilDay(probe[2])
  /\ bounds[1].end = bounds[2].end

C14_UnauthenticatedRejected ==
  [][ManualRotate(FALSE)
       => /\ response' = "unauthenticated"
          /\ response' \notin {"rotated:false", "rotated:true", "success:true"}
          /\ UNCHANGED store]_vars

\* C14 witness: a caller without credentials was rejected while a display
\* puzzle, a queued puzzle and stats were in place.
C14_Witness ==
  /\ response = "unauthenticated"
  /\ displayPuzzle.exists /\ approvedPuzzles # {}
  /\ puzzleStats.exists

\* C15: when a store call of checkAndRotatePublic fails, the caller gets the
\* answer it gets when no rotation is needed, { rotated: false } and nothing
\* else.
C15_FailureLooksLikeNoRotation ==
  [][\A f \in FailPoints :
       (CheckAndRotatePublicAt(f) /\ PublicThrew(f))
         => response' = "rotated:false"]_vars

\* What a caller gets from a function that returns, as opposed to the
\* HttpsError of one that throws.
NormalResponses ==
  {"rotated:true", "rotated:false", "rotated:false,error", "success:true",
   "success:false"}

\* C17: a store failure in checkAndRotatePublic, submitSolution or
\* pingPresence ends in a normal response to the caller; a store failure in
\* manualRotatePuzzle called with credentials ends in an error.
C17_AbsorbedWherePublic ==
  [][/\ \A f \in FailPoints :
          (CheckAndRotatePublicAt(f) /\ PublicThrew(f))
            => response' \in NormalResponses
     /\ \A p \in Participants, d \in Discs :
          SubmitSolutionAt(p, d, FALSE) => response' \in NormalResponses
     /\ \A p \in Participants :
          PingPresence(p, FALSE) => response' \in NormalResponses
     /\ \A f \in FailPoints :
          (ManualRotateAt(TRUE, f) /\ Reached(f))
            => response' \notin NormalResponses]_vars

\* C16: when onPuzzleApproved has run with a puzzle in the queue, a display
\* puzzle exists and is not expired; if the display was absent or expired
\* when it ran, the display puzzle is one taken from the queue. With no
\* onCreate event pending and a puzzle in the queue, a display puzzle exists.
C16_PromotedOnApproval ==
  /\ [][(OnPuzzleApproved /\ approvedPuzzles # {})
          => /\ displayPuzzle'.exists
             /\ now <= displayPuzzle'.expiryDate
             /\ ShouldRotate(displayPuzzle, now)
                  => \E e \in approvedPuzzles :
                       /\ displayPuzzle'.sourceId = e.id
                       /\ approvedPuzzles' = approvedPuzzles \ {e}]_vars
  /\ [](onCreateEvents = 0 /\ approvedPuzzles # {} => displayPuzzle.exists)

\* C16 witness: every onCreate event is delivered, and the puzzle approved
\* after the first display puzzle expired has replaced it.
C16_Witness ==
  /\ onCreateEvents = 0 /\ approvedCount = MaxItems
  /\ now > FirstInstant
  /\ displayPuzzle.exists /\ now <= displayPuzzle.expiryDate
  /\ approvedPuzzles = {}
  /\ Len(historyPuzzles) > 0

\* C18: pingPresence always returns to its caller: { success: false } when
\* the write fails, and { success: true } when it succeeds, the caller's
\* document in activeUsers then holding lastActive = now.
C18_PingNeverRaises ==
  [][\A p \in Participants, ok \in BOOLEAN :
       PingPresence(p, ok)
         => IF ok
              THEN /\ response' = "success:true"
                   /\ [id |-> p, lastActive |-> presenceNow] \in activeUsers'
              ELSE /\ response' = "success:false"
                   /\ UNCHANGED activeUsers]_vars

\* C18 witness: a ping has failed and was answered success: false after an
\* earlier ping at the same instant, later than the first, had succeeded.
C18_Witness ==
  /\ response = "success:false"
  /\ presenceNow > 0
  /\ \E r \in activeUsers : r.lastActive = presenceNow

\* C19: activeUsers never holds two documents for one id, the lastActive of
\* a document is the instant of the latest successful ping of its id, and
\* right after a successful ping the id has its document with lastActive =
\* now.
C19_OneRecordPerIdentity ==
  /\ [](\A r1, r2 \in activeUsers : r1.id = r2.id => r1 = r2)
  /\ [](\A r \in activeUsers : r.lastActive = lastPing[r.id])
  /\ [][\A id \in PresenceIds :
          (PingPresence(id, TRUE) \/ ClientPing(id, TRUE))
            => {r \in activeUsers' : r.id = id}
                 = {[id |-> id, lastActive |-> presenceNow]}]_vars

\* C19 witness: an id that pinged more than once has its one document, with
\* lastActive = now, beside the document of another id left from an earlier
\* instant.
C19_Witness ==
  \E r, q \in activeUsers :
    /\ pingCount[r.id] > 1
    /\ r.lastActive = presenceNow
    /\ q.id # r.id /\ q.lastActive < presenceNow

\* C20: a page load that finds the queue empty and the display absent or
\* expired, and whose request to checkAndRotatePublic is answered, ends with
\* noPuzzle = true and no puzzle shown.
C20_NoContentState ==
  [][(OnMounted(TRUE) /\ approvedPuzzles = {}
        /\ ShouldRotate(displayPuzzle, now))
       => client'.noPuzzle /\ ~client'.puzzle.exists]_vars

\* The entry points that run on a schedule, an event or a public request:
\* every rotation entry point but manualRotatePuzzle.
AutomaticTrigger == GatedTrigger \/ RotateDailyPuzzle

\* C21: no scheduled, event or public entry point replaces or archives a
\* display puzzle whose expiryDate is not yet passed; only
\* manualRotatePuzzle does.
C21_OnlyManualBeforeExpiry ==
  [][(AutomaticTrigger /\ displayPuzzle.exists
        /\ now <= displayPuzzle.expiryDate)
       => UNCHANGED <<displayPuzzle, historyPuzzles>>]_vars

\* C22: whichever entry point replaces the display puzzle, the history entry
\* it writes for the outgoing puzzle holds the counts of that moment, and
\* no stats document is left for the incoming puzzle.
C22_SnapshotAndReset ==
  [][(AnyRotation /\ displayPuzzle.exists /\ displayPuzzle' # displayPuzzle)
       => /\ historyPuzzles' =
               Append(historyPuzzles,
                      [sourceId |-> displayPuzzle.sourceId,
                       hasFinalStats |-> TRUE,
                       finalStats |-> StatsData(puzzleStats)])
          /\ ~puzzleStats'.exists]_vars

\* The civil day (UTC+5:30) a display document was written in: the day whose
\* bounds, computed when it was written, gave its expiryDate.
DisplayedDay(doc) == doc.expiryDate \div DayTicks

\* C26: a gated entry point that runs in a civil day after the one the
\* display puzzle was installed in treats it as expired: the puzzle is
\* archived, and replaced when the queue is not empty.
C26_ExpiredNextCivilDay ==
  [][(GatedTrigger /\ displayPuzzle.exists
        /\ CivilDay(now) > DisplayedDay(displayPuzzle))
       => /\ historyPuzzles' # historyPuzzles
          /\ approvedPuzzles # {} => displayPuzzle' # displayPuzzle]_vars

\* C25: whichever store call of a rotation fails and whatever is invoked
\* afterwards, no puzzle is at once the display puzzle and an entry of the
\* queue, and no puzzle has two history entries.
C25_NoHalfRotation ==
  /\ displayPuzzle.exists
       => \A e \in approvedPuzzles : e.id # displayPuzzle.sourceId
  /\ \A i, j \in 1..Len(historyPuzzles) :
       i # j => historyPuzzles[i].sourceId # historyPuzzles[j].sourceId

\* The sum of the values of the function f over the set S of arguments.
RECURSIVE SumOver(_, _)
SumOver(f, S) ==
  IF S = {} THEN 0
  ELSE LET x == CHOOSE y \in S : TRUE IN f[x] + SumOver(f, S \ {x})

\* No rotatePuzzleLogic invocation is between two of its store calls.
AllTasksFinished == \A k \in Tasks : tasks[k].pc \in {"idle", "done"}

\* The puzzle with this id is in the history.
Archived(id) == \E i \in 1..Len(historyPuzzles) : historyPuzzles[i].sourceId = id

\* C23: once every rotatePuzzleLogic invocation has finished, each puzzle
\* that has left the queue is the display puzzle or is in the history.
C23_NoItemLost ==
  AllTasksFinished =>
    \A id \in 1..approvedCount :
      \/ \E e \in approvedPuzzles : e.id = id
      \/ displayPuzzle.exists /\ displayPuzzle.sourceId = id
      \/ Archived(id)

\* C24: when all the invocations passed the gate with the same single entry
\* X in the queue, nothing was approved after X and all have finished, X is
\* the display puzzle, the queue is empty, X is not in the history and the
\* history has at most the one entry of the puzzle X replaced.
C24_SecondTaskNoOp ==
  \A x \in {[id |-> approvedCount, createdAt |-> t] : t \in Instants} :
    (\A k \in Tasks : tasks[k].pc = "done" /\ tasks[k].gate = {x})
      => /\ displayPuzzle.exists /\ displayPuzzle.sourceId = x.id
         /\ approvedPuzzles = {}
         /\ ~Archived(x.id)
         /\ Len(historyPuzzles) <= x.id - 1

\* C28: when the display puzzle X is replaced, the history has an entry of X
\* whose finalStats hold at least the increments committed by submitSolution
\* while X was the display puzzle, and no stats document is left over for
\* the puzzle that replaces it.
C28_NoContributionDropped ==
  [][(displayPuzzle.exists /\ displayPuzzle'.exists
        /\ displayPuzzle'.sourceId # displayPuzzle.sourceId)
       => /\ \E i \in 1..Len(historyPuzzles') :
               /\ historyPuzzles'[i].sourceId = displayPuzzle.sourceId
               /\ SumOver(historyPuzzles'[i].finalStats, Discs)
                    >= SumOver(counted, Participants)
          /\ ~puzzleStats'.exists]_vars

\* C30: once the submitSolutionStats calls of the sessions have returned,
\* the counts of puzzleStats/current add up to the number of sessions that
\* submitted for the display puzzle.
C30_ClientLosesNothing ==
  (\A u \in Players : submits[u].pc = "idle")
    => SumOver(StatsData(puzzleStats), Discs) = Cardinality(localSolved)

\* C29: with the submitSolution transactions of several participants
\* interleaved, every step that adds a solver document adds exactly one, of
\* a participant who had none, and raises exactly one count of the stats
\* document as it is at that moment by exactly one; and every step that
\* writes the stats document adds a solver document.
C29_NoLostUpdate ==
  /\ [][solvers' # solvers
          => /\ \E p \in Participants \ solvers : solvers' = solvers \cup {p}
             /\ \E d \in Discs : StatsData(puzzleStats')
                  = [StatsData(puzzleStats) EXCEPT ![d] = @ + 1]]_vars
  /\ [][(puzzleStats'.exists /\ puzzleStats' # puzzleStats)
          => solvers' # solvers]_vars

\* C29 witness: the increments of two participants are both in the stats
\* document, both have their solver document, and the transaction of one of
\* them had read the stats before the other committed.
C29_Witness ==
  /\ solvers = Participants
  /\ \A p \in Participants : counted[p] = 1
  /\ SumOver(StatsData(puzzleStats), Discs) = Cardinality(Participants)
  /\ response = "success:true"
  /\ \E c \in Calls : calls[c].pc = "read" /\ calls[c].saw # puzzleStats

\* C27: when the queue is not empty and the display puzzle is absent or
\* expired, with an hourly firing still to come and room in the history,
\* the display eventually holds a puzzle that is not expired, whether or
\* not the daily firing happened or succeeded.
C27_FallbackRecovers ==
  (/\ approvedPuzzles # {}
   /\ ~displayPuzzle.exists \/ now > displayPuzzle.expiryDate
   /\ now <= LastFallback
   /\ Len(historyPuzzles) < MaxHistory)
    ~> (displayPuzzle.exists /\ now <= displayPuzzle.expiryDate)

\* C27 witness: at a full hour that is not the instant of the daily firing,
\* a puzzle that is not expired is on display, installed after every daily
\* firing so far, with the puzzle it replaced in the history.
C27_Witness ==
  /\ HourlyDue(now) /\ ~DailyDue(now)
  /\ displayPuzzle.exists /\ now <= displayPuzzle.expiryDate
  /\ Len(historyPuzzles) > 0
  /\ displayPuzzle.sourceId > historyPuzzles[Len(historyPuzzles)].sourceId
  /\ \A t \in LiveInstants :
       (DailyDue(t) /\ t <= now)
         => getTodayISTBounds(t).end < displayPuzzle.expiryDate

\* The document r of activeUsers is deleted by the step: no document with
\* its id is left.
Swept(r) == r \in activeUsers /\ \A q \in activeUsers' : q.id # r.id

\* C31: a document of activeUsers that a step deletes has, at that moment,
\* lastActive older than the 10 minutes of cleanupActiveUsers; so it is not
\* one the online listener (lastActive > now - 5 minutes) counts.
C31_SweepDeletesOnlyStale ==
  [][\A r \in activeUsers :
       Swept(r) => r.lastActive < presenceNow - CleanupCutoff]_vars

\* C32: the stats backup that a rotation wrote to historyStats is still
\* there, as written, after every later step: no later rotation writes its
\* own backup over it.
C32_BackupKept ==
  [][historyStats.exists => historyStats' = historyStats]_vars

====
